---- MODULE Spec2Model ----
(***************************************************************************)
(* Model of taskmgr-drawing (src/src/main.rs): the Image pixel buffer, the *)
(* capture (from_window), the style transform (to_taskmgr_style through     *)
(* from_fn), the present (paint_to_window) and the main loop.               *)
(*                                                                          *)
(* Offsets are 0-based as in the source; a buffer is a TLA+ sequence, so    *)
(* the byte at offset o is buf[o + 1].                                      *)
(***************************************************************************)
EXTENDS Integers, Sequences, FiniteSets, TLC

VARIABLES
    srcWin,     \* the "SDL_app"/"ffplay" window exists
    dst,        \* the "TaskManagerWindow": [present, size, shown]
    pc,         \* position of main's loop (and inside the call it is in)
    rect,       \* from_window's locals <<width, height>> read by GetClientRect
    held,       \* GDI resources currently held by the process
    acq,        \* GDI resources the call in progress (or the last call) acquired
    result,     \* the anyhow::Result of the last from_window / paint_to_window
    img,        \* main's img: <<>> or <<Image>>
    img2,       \* main's img2 (from_fn's image while it is being filled)
    fx, fy,     \* from_fn's loop counters x and y
    writes,     \* how often from_fn has called set_color at each coordinate
    reads,      \* input coordinates read by the closure during this transform
    edgeCalls,  \* coordinates is_edge was invoked at during this transform
    iterLog,    \* what the current (at the loop head: the previous) iteration did
    gray,       \* result of get_grayscale_color, -1 before it is called
    white       \* result of is_white

vars == <<srcWin, dst, pc, rect, held, acq, result, img, img2, fx, fy,
          writes, reads, edgeCalls, iterLog, gray, white>>

(*************************** bounds of the model ***************************)
MaxClient == 3      \* client-area sizes GetClientRect reports: 0..MaxClient
MaxDim == 4         \* image sizes the transform is run on alone: 1..MaxDim
WideDim == 53       \* one image side long enough to hold a grid line at 50
PatDim == 2         \* where a test frame may change colour: 0..PatDim
CapPat == 1         \* the same for frames the main loop captures

(**************************** program constants ****************************)
U8 == 256           \* u8 arithmetic is modulo 2^8
GridStep == 50
WhiteThreshold == 192
ChromeW == 396
ChromeH == 508
BytesPerPixel == 4

BorderColor == <<76, 157, 203>>    \* (0x4c, 0x9d, 0xcb) border
GridColor == <<217, 234, 244>>   \* (0xd9, 0xea, 0xf4) grid
WhiteColor == <<255, 255, 255>>   \* (0xff, 0xff, 0xff) white
DarkColor == <<241, 246, 250>>   \* (0xf1, 0xf6, 0xfa) dark

ErrNotFound == "Window not found"
ErrNotShown == "Window not shown"

(******************************** Image ***********************************)
Coords(w, h) == (0 .. w - 1) \X (0 .. h - 1)

\* Image::new
New(width, height) ==
    [width |-> width, height |-> height,
     buf |-> [i \in 1 .. width * height * BytesPerPixel |-> 0]]

\* Image::get_offset (GetOffsetSwapped: width and height exchanged)
GetOffsetSwapped(image, x, y) ==
    ((image.width - 1 - y) * image.height + x) * BytesPerPixel
GetOffset(image, x, y) ==
    ((image.height - 1 - y) * image.width + x) * BytesPerPixel

\* The index checks of buf[offset + 2], buf[offset + 1], buf[offset + 0]: the
\* access panics when one of them is outside the Vec (a usize that went below
\* zero is outside it too).
Panics(image, x, y) ==
    LET off == GetOffset(image, x, y)
    IN  off < 0 \/ off + 2 >= Len(image.buf)

\* Image::get_color; <<r, g, b>>
GetColor(image, x, y) ==
    LET off == GetOffset(image, x, y)
    IN  IF Panics(image, x, y) THEN <<0, 0, 0>>
        ELSE <<image.buf[off + 2 + 1], image.buf[off + 1 + 1], image.buf[off + 0 + 1]>>

\* Image::set_color
SetColor(image, x, y, r, g, b) ==
    LET off == GetOffset(image, x, y)
    IN  [image EXCEPT !.buf =
            [i \in DOMAIN image.buf |->
                IF i = off + 2 + 1 THEN r
                ELSE IF i = off + 1 + 1 THEN g
                ELSE IF i = off + 0 + 1 THEN b
                ELSE image.buf[i]]]

U8Add(a, b) == (a + b) % U8

\* Image::get_grayscale_color (GetGrayscaleColorAverage: every channel halved,
\* so that the u8 sum wraps)
GetGrayscaleColorAverage(image, x, y) ==
    LET c == GetColor(image, x, y)
    IN  U8Add(U8Add(c[1] \div 2, c[2] \div 2), c[3] \div 2)
GetGrayscaleColor(image, x, y) ==
    LET c == GetColor(image, x, y)
    IN  U8Add(U8Add(c[1] \div 4, c[2] \div 2), c[3] \div 4)

\* Image::is_white
IsWhite(image, x, y) == GetGrayscaleColor(image, x, y) > WhiteThreshold

\* Image::is_edge
IsEdge(image, x, y) ==
    LET a == IsWhite(image, x, y)
        b == IsWhite(image, x, y + 1)
        c == IsWhite(image, x + 1, y)
        d == IsWhite(image, x + 1, y + 1)
    IN  ~(a = b /\ a = c /\ a = d)

\* the pixels is_white and is_edge read, in the order they read them
IsWhiteReads(x, y) == << <<x, y>> >>
IsEdgeReads(x, y) == << <<x, y>>, <<x, y + 1>>, <<x + 1, y>>, <<x + 1, y + 1>> >>

(*************************** to_taskmgr_style *****************************)
\* the dimensions to_taskmgr_style hands to from_fn (NoShrink: without the - 1)
OutWidthNoShrink(image) == image.width
OutWidth(image) == image.width - 1
OutHeightNoShrink(image) == image.height
OutHeight(image) == image.height - 1

\* the four position tests that open the closure's first condition
PosBorder(image, x, y) ==
    x = 0 \/ y = 0 \/ x = image.width - 2 \/ y = image.height - 2

OnGrid(x, y) == x % GridStep = 0 \/ y % GridStep = 0

\* the closure of to_taskmgr_style: the colour of output pixel (x, y)
\* (StyleColorGridFirst: the grid test moved before the border test)
StyleColorGridFirst(image, x, y) ==
    IF OnGrid(x, y) THEN GridColor
    ELSE IF PosBorder(image, x, y) \/ IsEdge(image, x, y) THEN BorderColor
    ELSE IF IsWhite(image, x, y) THEN WhiteColor
    ELSE DarkColor
StyleColor(image, x, y) ==
    IF PosBorder(image, x, y) \/ IsEdge(image, x, y) THEN BorderColor
    ELSE IF OnGrid(x, y) THEN GridColor
    ELSE IF IsWhite(image, x, y) THEN WhiteColor
    ELSE DarkColor

\* the coordinates the closure invokes is_edge at: || evaluates is_edge only
\* when the four position tests before it are false
StyleEdgeCalls(image, x, y) ==
    IF PosBorder(image, x, y) THEN {} ELSE {<<x, y>>}

\* the input pixels one evaluation of the closure reads, in order
StyleReads(image, x, y) ==
    IF PosBorder(image, x, y) THEN << >>
    ELSE IsEdgeReads(x, y) \o
         (IF IsEdge(image, x, y) \/ OnGrid(x, y) THEN << >> ELSE IsWhiteReads(x, y))

\* one of the closure's reads indexes outside the buffer
StylePanics(image, x, y) ==
    \E i \in DOMAIN StyleReads(image, x, y) :
        Panics(image, StyleReads(image, x, y)[i][1], StyleReads(image, x, y)[i][2])

Range(s) == {s[i] : i \in DOMAIN s}

(************************ the windows and the GDI *************************)
\* colours a test frame is made of: black, white, and the two colours whose
\* grayscale is 192 and 193
Palette == << <<0, 0, 0>>, <<255, 255, 255>>, <<255, 255, 8>>, <<255, 255, 12>> >>

\* a frame on the source window's surface: colour fg where x >= sx and
\* y >= sy, colour bg elsewhere
Frames(pal, pat) == [bg : 1 .. pal, fg : 1 .. pal, sx : 0 .. pat, sy : 0 .. pat]
\* the frames the main loop captures: white on black
CaptureFrames == {f \in Frames(2, CapPat) : f.bg = 1 /\ f.fg = 2}
Surface(f, x, y) == Palette[IF x >= f.sx /\ y >= f.sy THEN f.fg ELSE f.bg]

\* what GetDIBits stores for a width x height bitmap showing frame f: 32-bit
\* pixels B, G, R, pad, rows bottom-up
GetDIBitsBuf(f, width, height) ==
    [i \in 1 .. width * height * BytesPerPixel |->
        LET p == (i - 1) \div BytesPerPixel
            ch == (i - 1) % BytesPerPixel
            c == Surface(f, p % width, height - 1 - (p \div width))
        IN  CASE ch = 0 -> c[3]
              [] ch = 1 -> c[2]
              [] ch = 2 -> c[1]
              [] OTHER -> 0]

Res == {"hdc", "hmemdc", "hbm", "sel"}

\* what GetDC, CreateCompatibleDC, CreateCompatibleBitmap and SelectObject
\* may leave acquired: each may fail (return null), a bitmap needs the window
\* DC and a selection needs the memory DC and the bitmap
AcquireOutcomes ==
    {s \in SUBSET Res :
        /\ ("hbm" \in s => "hdc" \in s)
        /\ ("sel" \in s => {"hmemdc", "hbm"} \subseteq s)}

\* SelectObject(hmemdc, hbm_old); DeleteObject(hbm); DeleteDC(hmemdc);
\* ReleaseDC(hwnd, hdc) at the end of from_window (ReleaseAllButDC: without
\* the ReleaseDC)
ReleaseAllButDC(h) == ((h \ {"sel"}) \ {"hbm"}) \ {"hmemdc"}
ReleaseAll(h) == (((h \ {"sel"}) \ {"hbm"}) \ {"hmemdc"}) \ {"hdc"}
\* the same four calls at the end of paint_to_window
PaintReleaseAll(h) == (((h \ {"sel"}) \ {"hbm"}) \ {"hmemdc"}) \ {"hdc"}

\* from_window's test of the client size (NotShownBoth: && in place of ||)
NotShownBoth(width, height) == width = 0 /\ height = 0
NotShown(width, height) == width = 0 \/ height = 0

NoWindow == [present |-> FALSE, size |-> <<0, 0>>, shown |-> <<0, 0>>]
NewWindow == [present |-> TRUE, size |-> <<0, 0>>, shown |-> <<0, 0>>]

(******************************* main ************************************)
\* main's state when the loop is entered. Whether the two windows exist by
\* then is up to the environment (the spawned processes may not have opened
\* them yet).
Init ==
    /\ srcWin \in BOOLEAN
    /\ dst \in {NoWindow, NewWindow}
    /\ pc = "from_window"
    /\ rect = <<0, 0>>
    /\ held = {}
    /\ acq = {}
    /\ result = "none"
    /\ img = << >>
    /\ img2 = << >>
    /\ fx = 0
    /\ fy = 0
    /\ writes = << >>
    /\ reads = {}
    /\ edgeCalls = {}
    /\ iterLog = << >>
    /\ gray = -1
    /\ white = FALSE

\* the end of one iteration of `loop`: img and img2 go out of scope
EndIteration ==
    /\ pc' = "from_window"
    /\ img' = << >>
    /\ img2' = << >>
    /\ rect' = <<0, 0>>
    /\ fx' = 0
    /\ fy' = 0
    /\ writes' = << >>
    /\ reads' = {}
    /\ edgeCalls' = {}

\* where the loop goes after FindWindowW("TaskManagerWindow", ...)
\* (AfterFindDstAlways: without the test of the handle)
AfterFindDstAlways(found) == "transform"
AfterFindDst(found) == IF found THEN "transform" ELSE "sleep"

(****************************** from_window *******************************)
\* FindWindowW returns 0: Err("Window not found")
FwNotFound ==
    /\ pc = "from_window"
    /\ ~srcWin
    /\ result' = ErrNotFound
    /\ acq' = {}
    /\ iterLog' = <<"capture_err">>
    /\ pc' = "sleep"
    /\ UNCHANGED <<srcWin, dst, rect, held, img, img2, fx, fy, writes, reads,
                   edgeCalls, gray, white>>

\* the window exists and GetClientRect reports width x height (0 x 0 when
\* GetClientRect fails: its result is ignored and rect stays RECT::default())
FwClientRect ==
    /\ pc = "from_window"
    /\ srcWin
    /\ \E width \in 0 .. MaxClient, height \in 0 .. MaxClient :
        /\ rect' = <<width, height>>
        /\ IF NotShown(width, height)
           THEN /\ result' = ErrNotShown
                /\ iterLog' = <<"capture_err">>
                /\ pc' = "sleep"
           ELSE /\ result' = "none"
                /\ iterLog' = << >>
                /\ pc' = "fw_acquire"
    /\ acq' = {}
    /\ UNCHANGED <<srcWin, dst, held, img, img2, fx, fy, writes, reads,
                   edgeCalls, gray, white>>

\* GetDC, CreateCompatibleDC, CreateCompatibleBitmap, SelectObject
FwAcquire ==
    /\ pc = "fw_acquire"
    /\ \E got \in AcquireOutcomes :
        /\ held' = held \cup got
        /\ acq' = got
    /\ pc' = "fw_read"
    /\ UNCHANGED <<srcWin, dst, rect, result, img, img2, fx, fy, writes, reads,
                   edgeCalls, iterLog, gray, white>>

\* BitBlt, vec![0u8; width * height * 4], GetDIBits: the buffer holds the
\* frame on the window when every GDI call worked, and stays zero otherwise
FwRead ==
    /\ pc = "fw_read"
    /\ \E f \in CaptureFrames :
        img' = << [width |-> rect[1], height |-> rect[2],
                   buf |-> IF held = Res /\ srcWin
                           THEN GetDIBitsBuf(f, rect[1], rect[2])
                           ELSE New(rect[1], rect[2]).buf] >>
    /\ pc' = "fw_release"
    /\ UNCHANGED <<srcWin, dst, rect, held, acq, result, img2, fx, fy, writes,
                   reads, edgeCalls, iterLog, gray, white>>

\* the four releases, then Ok(Self { width, height, buf })
FwRelease ==
    /\ pc = "fw_release"
    /\ held' = ReleaseAll(held)
    /\ result' = "ok"
    /\ iterLog' = Append(iterLog, "capture_ok")
    /\ pc' = "find_dst"
    /\ UNCHANGED <<srcWin, dst, rect, acq, img, img2, fx, fy, writes, reads,
                   edgeCalls, gray, white>>

(******************************* the loop *********************************)
\* let hwnd_taskmgr = FindWindowW(...); if hwnd_taskmgr.0 != 0 { ... } else
FindDst ==
    /\ pc = "find_dst"
    /\ pc' = AfterFindDst(dst.present)
    /\ iterLog' = Append(iterLog, IF dst.present THEN "dst_found" ELSE "dst_absent")
    /\ UNCHANGED <<srcWin, dst, rect, held, acq, result, img, img2, fx, fy,
                   writes, reads, edgeCalls, gray, white>>

\* sleep(Duration::from_millis(16)), in either else branch
Sleep ==
    /\ pc = "sleep"
    /\ iterLog' = Append(iterLog, "sleep")
    /\ EndIteration
    /\ UNCHANGED <<srcWin, dst, held, acq, result, gray, white>>

(************************ to_taskmgr_style, from_fn ***********************)
\* to_taskmgr_style calls from_fn(self.width - 1, self.height - 1, ..), which
\* starts from Image::new
TransformStart ==
    /\ pc = "transform"
    /\ img2' = << New(OutWidth(img[1]), OutHeight(img[1])) >>
    /\ writes' = [c \in Coords(OutWidth(img[1]), OutHeight(img[1])) |-> 0]
    /\ fx' = 0
    /\ fy' = 0
    /\ reads' = {}
    /\ edgeCalls' = {}
    /\ pc' = "from_fn"
    /\ UNCHANGED <<srcWin, dst, rect, held, acq, result, img, iterLog, gray, white>>

\* one pass of the inner loop body: let (r, g, b) = f(x, y);
\* image.set_color(x, y, r, g, b)
FromFnStep ==
    /\ pc = "from_fn"
    /\ fy < img2[1].height
    /\ fx < img2[1].width
    /\ reads' = reads \cup Range(StyleReads(img[1], fx, fy))
    /\ edgeCalls' = edgeCalls \cup StyleEdgeCalls(img[1], fx, fy)
    /\ IF StylePanics(img[1], fx, fy)
       THEN /\ pc' = "panicked"
            /\ UNCHANGED <<img2, writes, fx, fy>>
       ELSE /\ LET c == StyleColor(img[1], fx, fy)
               IN  img2' = << SetColor(img2[1], fx, fy, c[1], c[2], c[3]) >>
            /\ writes' = [writes EXCEPT ![<<fx, fy>>] = @ + 1]
            /\ IF fx + 1 < img2[1].width
               THEN fx' = fx + 1 /\ fy' = fy
               ELSE fx' = 0 /\ fy' = fy + 1
            /\ pc' = pc
    /\ UNCHANGED <<srcWin, dst, rect, held, acq, result, img, iterLog, gray, white>>

\* both loops are over (at once when a dimension is 0): from_fn returns the image
FromFnDone ==
    /\ pc = "from_fn"
    /\ (fy >= img2[1].height \/ img2[1].width = 0)
    /\ iterLog' = Append(iterLog, "transform")
    /\ pc' = "resize"
    /\ UNCHANGED <<srcWin, dst, rect, held, acq, result, img, img2, fx, fy,
                   writes, reads, edgeCalls, gray, white>>

\* SetWindowPos(hwnd_taskmgr, .., img2.width + 396, img2.height + 508, ..);
\* it fails, and its result is dropped, when the window is gone by now
Resize ==
    /\ pc = "resize"
    /\ dst' = IF dst.present
              THEN [dst EXCEPT !.size = <<img2[1].width + ChromeW, img2[1].height + ChromeH>>]
              ELSE dst
    /\ iterLog' = Append(iterLog, "resize")
    /\ pc' = "paint"
    /\ UNCHANGED <<srcWin, rect, held, acq, result, img, img2, fx, fy, writes,
                   reads, edgeCalls, gray, white>>

(**************************** paint_to_window *****************************)
\* FindWindowW returns 0: Err("Window not found"), which main drops (let _ =)
\* before it goes to the next iteration
PwNotFound ==
    /\ pc = "paint"
    /\ ~dst.present
    /\ result' = ErrNotFound
    /\ acq' = {}
    /\ iterLog' = Append(iterLog, "present_err")
    /\ EndIteration
    /\ UNCHANGED <<srcWin, dst, held, gray, white>>

PwFound ==
    /\ pc = "paint"
    /\ dst.present
    /\ acq' = {}
    /\ pc' = "pw_acquire"
    /\ UNCHANGED <<srcWin, dst, rect, held, result, img, img2, fx, fy, writes,
                   reads, edgeCalls, iterLog, gray, white>>

PwAcquire ==
    /\ pc = "pw_acquire"
    /\ \E got \in AcquireOutcomes :
        /\ held' = held \cup got
        /\ acq' = got
    /\ pc' = "pw_write"
    /\ UNCHANGED <<srcWin, dst, rect, result, img, img2, fx, fy, writes, reads,
                   edgeCalls, iterLog, gray, white>>

\* SetDIBits, BitBlt: the window shows the image when every GDI call worked
PwWrite ==
    /\ pc = "pw_write"
    /\ dst' = IF held = Res /\ dst.present
              THEN [dst EXCEPT !.shown = <<img2[1].width, img2[1].height>>]
              ELSE dst
    /\ pc' = "pw_release"
    /\ UNCHANGED <<srcWin, rect, held, acq, result, img, img2, fx, fy, writes,
                   reads, edgeCalls, iterLog, gray, white>>

\* the four releases, then Ok(()); the loop body ends here
PwRelease ==
    /\ pc = "pw_release"
    /\ held' = PaintReleaseAll(held)
    /\ result' = "ok"
    /\ iterLog' = Append(iterLog, "present_ok")
    /\ EndIteration
    /\ UNCHANGED <<srcWin, dst, acq, gray, white>>

(***************************** environment ********************************)
SrcAppear ==
    /\ ~srcWin
    /\ srcWin' = TRUE
    /\ UNCHANGED <<dst, pc, rect, held, acq, result, img, img2, fx, fy, writes,
                   reads, edgeCalls, iterLog, gray, white>>

SrcVanish ==
    /\ srcWin
    /\ srcWin' = FALSE
    /\ UNCHANGED <<dst, pc, rect, held, acq, result, img, img2, fx, fy, writes,
                   reads, edgeCalls, iterLog, gray, white>>

DstAppear ==
    /\ ~dst.present
    /\ dst' = NewWindow
    /\ UNCHANGED <<srcWin, pc, rect, held, acq, result, img, img2, fx, fy, writes,
                   reads, edgeCalls, iterLog, gray, white>>

DstVanish ==
    /\ dst.present
    /\ dst' = NoWindow
    /\ UNCHANGED <<srcWin, pc, rect, held, acq, result, img, img2, fx, fy, writes,
                   reads, edgeCalls, iterLog, gray, white>>

Next ==
    \/ FwNotFound
    \/ FwClientRect
    \/ FwAcquire
    \/ FwRead
    \/ FwRelease
    \/ FindDst
    \/ Sleep
    \/ TransformStart
    \/ FromFnStep
    \/ FromFnDone
    \/ Resize
    \/ PwNotFound
    \/ PwFound
    \/ PwAcquire
    \/ PwWrite
    \/ PwRelease
    \/ SrcAppear
    \/ SrcVanish
    \/ DstAppear
    \/ DstVanish

Spec == Init /\ [][Next]_vars

(*********** the transform alone, on larger and on wide images *************)
Capture(f, width, height) ==
    [width |-> width, height |-> height, buf |-> GetDIBitsBuf(f, width, height)]

\* every small image in every palette colour, and the wide ones in black and
\* white (the first two palette entries)
StyleImages ==
    {Capture(f, d[1], d[2]) :
        d \in (1 .. MaxDim) \X (1 .. MaxDim), f \in Frames(Len(Palette), PatDim)}
    \cup
    {Capture(f, d[1], d[2]) :
        d \in {<<WideDim, MaxDim>>, <<MaxDim, WideDim>>}, f \in Frames(2, PatDim)}

\* the loop has captured an image and found the destination window
InitStyle ==
    /\ srcWin = TRUE
    /\ dst = NewWindow
    /\ pc = "transform"
    /\ \E image \in StyleImages :
        /\ img = <<image>>
        /\ rect = <<image.width, image.height>>
    /\ held = {}
    /\ acq = Res
    /\ result = "ok"
    /\ img2 = << >>
    /\ fx = 0
    /\ fy = 0
    /\ writes = << >>
    /\ reads = {}
    /\ edgeCalls = {}
    /\ iterLog = <<"capture_ok", "dst_found">>
    /\ gray = -1
    /\ white = FALSE

NextStyle ==
    \/ TransformStart
    \/ FromFnStep
    \/ FromFnDone

SpecStyle == InitStyle /\ [][NextStyle]_vars

(************ get_grayscale_color and is_white on one pixel ****************)
RedSamples == 0 .. U8 - 1
GreenSamples == 0 .. U8 - 1
\* blue is sampled around the multiples of 4 that b / 4 steps at
BlueSamples == {0, 1, 3, 4, 7, 8, 11, 12, 127, 128, 251, 252, 255}

\* a 1 x 1 image holding the pixel (r, g, b)
InitGray ==
    /\ srcWin = TRUE
    /\ dst = NewWindow
    /\ pc = "gray"
    /\ rect = <<1, 1>>
    /\ held = {}
    /\ acq = {}
    /\ result = "none"
    /\ \E r \in RedSamples, g \in GreenSamples, b \in BlueSamples :
        img = << [width |-> 1, height |-> 1, buf |-> <<b, g, r, 0>>] >>
    /\ img2 = << >>
    /\ fx = 0
    /\ fy = 0
    /\ writes = << >>
    /\ reads = {}
    /\ edgeCalls = {}
    /\ iterLog = << >>
    /\ gray = -1
    /\ white = FALSE

\* img.get_grayscale_color(0, 0) and img.is_white(0, 0)
GrayEval ==
    /\ pc = "gray"
    /\ gray' = GetGrayscaleColor(img[1], 0, 0)
    /\ white' = IsWhite(img[1], 0, 0)
    /\ pc' = "gray_done"
    /\ UNCHANGED <<srcWin, dst, rect, held, acq, result, img, img2, fx, fy,
                   writes, reads, edgeCalls, iterLog>>

NextGray == GrayEval

SpecGray == InitGray /\ [][NextGray]_vars

(******************************* properties ********************************)
\* from_fn has returned: img2 is the finished output of to_taskmgr_style
TransformDone == pc \in {"resize", "paint", "pw_acquire", "pw_write", "pw_release"}

\* to_taskmgr_style's input is at least 2 x 2
InputAbove1 == img # << >> /\ img[1].width > 1 /\ img[1].height > 1

Last(s) == s[Len(s)]
IsPrefix(s, t) == Len(s) <= Len(t) /\ \A i \in 1 .. Len(s) : s[i] = t[i]
Dist(a, b) == IF a >= b THEN a - b ELSE b - a

\* the colour the first matching rule of the classification gives
RuleColor(image, x, y) ==
    IF \/ x = 0
       \/ y = 0
       \/ x = image.width - 2
       \/ y = image.height - 2
       \/ IsEdge(image, x, y)
    THEN <<76, 157, 203>>
    ELSE IF x % 50 = 0 \/ y % 50 = 0 THEN <<217, 234, 244>>
    ELSE IF IsWhite(image, x, y) THEN <<255, 255, 255>>
    ELSE <<241, 246, 250>>

AllWhite4x4(image) ==
    /\ image.width = 4
    /\ image.height = 4
    /\ \A c \in Coords(4, 4) : GetColor(image, c[1], c[2]) = <<255, 255, 255>>

\* C1: for every input wider and higher than 1, every pixel of the output of
\* to_taskmgr_style has the colour of the first rule that matches, in the
\* order border (position or is_edge), grid, white, dark; so a pixel on the
\* border and on the grid is border-coloured, and a 4 x 4 all-white input
\* gives the border colour at (0,0) and white at (1,1).
C1_FirstMatchingRule ==
    (TransformDone /\ InputAbove1) =>
        /\ \A c \in Coords(img[1].width - 1, img[1].height - 1) :
            /\ GetColor(img2[1], c[1], c[2]) = RuleColor(img[1], c[1], c[2])
            /\ (c[1] = 0 /\ c[1] % 50 = 0) =>
                    GetColor(img2[1], c[1], c[2]) = <<76, 157, 203>>
        /\ AllWhite4x4(img[1]) =>
            /\ GetColor(img2[1], 0, 0) = <<76, 157, 203>>
            /\ GetColor(img2[1], 1, 1) = <<255, 255, 255>>

\* a finished wide output with a grid-coloured pixel in column 50, a border
\* pixel at (0,0) and a white pixel
C1_Witness ==
    /\ TransformDone
    /\ InputAbove1
    /\ img[1].width = WideDim
    /\ GetColor(img2[1], 50, 1) = <<217, 234, 244>>
    /\ GetColor(img2[1], 0, 0) = <<76, 157, 203>>
    /\ \E c \in Coords(img2[1].width, img2[1].height) :
            GetColor(img2[1], c[1], c[2]) = <<255, 255, 255>>

\* C2: for every input wider and higher than 1, the image to_taskmgr_style
\* returns is (width-1) x (height-1), its buffer is (width-1)*(height-1)*4
\* bytes long, and from_fn has written each of its coordinates exactly once
\* (and none more than once while it runs).
C2_DimsAndWrittenOnce ==
    /\ (TransformDone /\ InputAbove1) =>
        /\ img2[1].width = img[1].width - 1
        /\ img2[1].height = img[1].height - 1
        /\ Len(img2[1].buf) = (img[1].width - 1) * (img[1].height - 1) * 4
        /\ DOMAIN writes = Coords(img[1].width - 1, img[1].height - 1)
        /\ \A c \in DOMAIN writes : writes[c] = 1
    /\ (pc = "from_fn" /\ InputAbove1) =>
        /\ Len(img2[1].buf) = img2[1].width * img2[1].height * 4
        /\ \A c \in DOMAIN writes : writes[c] <= 1

\* a finished output of a 3 x 4 input: 2 x 3, six coordinates written
C2_Witness ==
    /\ TransformDone
    /\ img[1].width = 3
    /\ img[1].height = 4
    /\ Cardinality(DOMAIN writes) = 6
    /\ \A c \in DOMAIN writes : writes[c] = 1

\* C3: get_grayscale_color is r/4 + g/2 + b/4 with truncating divisions, at
\* most 253 (the u8 sum does not wrap), and is_white is true exactly when it
\* is above 192. The pixel is stored B, G, R.
C3_Grayscale ==
    pc = "gray_done" =>
        LET r == img[1].buf[3]
            g == img[1].buf[2]
            b == img[1].buf[1]
        IN  /\ gray = (r \div 4) + (g \div 2) + (b \div 4)
            /\ gray <= 253
            /\ white <=> (gray > 192)
            /\ (gray = 192 => ~white)
            /\ (gray = 193 => white)
            /\ (r = 255 /\ g = 255 /\ b = 255) => gray = 253

\* the pixel (255, 255, 8): grayscale 192, not white
C3_Witness ==
    /\ pc = "gray_done"
    /\ img[1].buf = <<8, 255, 255, 0>>
    /\ gray = 192
    /\ ~white

\* the 4-byte range of coordinate c of image lies in the buffer, and is
\* disjoint from the range of every other valid coordinate
OffsetOk(image, c) ==
    LET off == GetOffset(image, c[1], c[2])
    IN  /\ off = ((image.height - 1 - c[2]) * image.width + c[1]) * 4
        /\ 0 <= off
        /\ off <= image.width * image.height * 4 - 4
        /\ \A o \in Coords(image.width, image.height) :
                o # c => Dist(GetOffset(image, o[1], o[2]), off) >= 4

C4_Offsets ==
    (pc = "from_fn" /\ fy < img2[1].height /\ fx < img2[1].width) =>
        /\ OffsetOk(img2[1], <<fx, fy>>)
        /\ OffsetOk(img[1], <<fx, fy>>)
        /\ OffsetOk(img[1], <<fx + 1, fy + 1>>)

\* a step of from_fn that calls set_color at (fx, fy) sets the colour read
\* there and changes the colour read at no other coordinate
C4_SetColorStep ==
    (pc = "from_fn" /\ pc' = "from_fn" /\ <<fx', fy'>> # <<fx, fy>>) =>
        \A c \in Coords(img2[1].width, img2[1].height) :
            GetColor(img2'[1], c[1], c[2]) =
                IF c = <<fx, fy>> THEN StyleColor(img[1], fx, fy)
                ELSE GetColor(img2[1], c[1], c[2])

\* C4: for every valid coordinate get_offset is ((height-1-y)*width + x)*4,
\* lies in [0, width*height*4 - 4], and is at least 4 bytes away from the
\* offset of any other valid coordinate; set_color at one coordinate leaves
\* the colour get_color reads at every other coordinate unchanged.
C4_OffsetsDisjoint == []C4_Offsets /\ [][C4_SetColorStep]_vars

\* from_fn is about to write the last pixel of a non-square output
C4_Witness ==
    /\ pc = "from_fn"
    /\ img2[1].width = 3
    /\ img2[1].height = 2
    /\ fx = 2
    /\ fy = 1
    /\ writes[<<1, 1>>] = 1

InCall == {"fw_acquire", "fw_read", "fw_release", "pw_acquire", "pw_write", "pw_release"}

LogCaptureFailed == <<"capture_err", "sleep">>
LogNoDestination == <<"capture_ok", "dst_absent", "sleep">>
LogPresented == <<"capture_ok", "dst_found", "transform", "resize", "present_ok">>
LogPresentFailed == <<"capture_ok", "dst_found", "transform", "resize", "present_err">>
IterationLogs == {LogCaptureFailed, LogNoDestination, LogPresented, LogPresentFailed}

\* C5: an iteration whose capture fails (window absent or not shown) only
\* sleeps; one that captures but finds no destination window only sleeps,
\* with the frame neither transformed nor presented; one that finds both
\* runs transform, resize, present in that order and ends without sleeping;
\* and an iteration starts with no image of an earlier one.
C5_IterationShape ==
    /\ \E t \in IterationLogs : IsPrefix(iterLog, t)
    /\ (pc = "from_window" /\ iterLog # << >>) => iterLog \in IterationLogs
    /\ pc = "from_window" => (img = << >> /\ img2 = << >>)
    /\ pc = "sleep" => img2 = << >>
    /\ (pc = "sleep" /\ ~dst.present) => dst.shown = <<0, 0>>
    /\ pc \in {"transform", "from_fn", "resize", "paint"} =>
            (img # << >> /\ IsPrefix(<<"capture_ok", "dst_found">>, iterLog))
    /\ TransformDone =>
        /\ img2[1].width = img[1].width - 1
        /\ img2[1].height = img[1].height - 1

\* an iteration that presented has ended, without a sleep
C5_Witness ==
    /\ pc = "from_window"
    /\ iterLog = LogPresented
    /\ dst.present
    /\ dst.shown # <<0, 0>>

\* C6: as the claim states it, no error of from_window or paint_to_window ends the loop,
\* and after an iteration with such an error the next capture attempt comes
\* only after a sleep.
C6_ErrorThenBackoff ==
    /\ pc # "panicked"
    /\ (/\ pc = "from_window"
        /\ \E i \in DOMAIN iterLog : iterLog[i] \in {"capture_err", "present_err"})
       => Last(iterLog) = "sleep"

\* C7: whenever neither from_window nor paint_to_window is running, no GDI
\* resource (window DC, memory DC, bitmap, selection) is held: every exit
\* path of both has released what the call acquired.
C7_NothingHeldBetweenCalls ==
    /\ pc \notin InCall => held = {}
    /\ held \subseteq acq

\* from_window has returned Ok after acquiring all four resources
C7_Witness ==
    /\ pc = "find_dst"
    /\ result = "ok"
    /\ acq = Res
    /\ held = {}

C8_State ==
    /\ (pc = "sleep" /\ iterLog = <<"capture_err">>) =>
        /\ result \in {ErrNotFound, ErrNotShown}
        /\ img = << >>
        /\ acq = {}
        /\ held = {}
    /\ pc = "find_dst" =>
        /\ result = "ok"
        /\ img # << >>
        /\ img[1].width = rect[1]
        /\ img[1].height = rect[2]
        /\ img[1].width > 0
        /\ img[1].height > 0
        /\ Len(img[1].buf) = rect[1] * rect[2] * 4

\* the first step of from_window, from the loop head
C8_Step ==
    (pc = "from_window" /\ pc' # "from_window") =>
        /\ ~srcWin => (result' = ErrNotFound /\ pc' = "sleep")
        /\ (srcWin /\ (rect'[1] = 0 \/ rect'[2] = 0)) =>
                (result' = ErrNotShown /\ pc' = "sleep")
        /\ pc' = "sleep" => (img' = << >> /\ acq' = {} /\ held' = {})
        /\ pc' # "sleep" =>
                (pc' = "fw_acquire" /\ srcWin /\ rect'[1] > 0 /\ rect'[2] > 0)

\* C8: from_window returns "Window not found" when the window does not
\* exist, whatever its size, and "Window not shown" when it exists with a
\* zero client width or height; in both cases no buffer is allocated and no
\* drawing resource acquired. It returns an image only when both checks
\* pass, of exactly the client width and height.
C8_CaptureErrors == []C8_State /\ [][C8_Step]_vars

\* "Window not shown" for a client area that is 2 wide and 0 high
C8_Witness ==
    /\ pc = "sleep"
    /\ result = ErrNotShown
    /\ rect = <<2, 0>>
    /\ img = << >>
    /\ acq = {}

\* C9: as the claim states it, to_taskmgr_style on an image of width <= 1 or height <= 1
\* fails fast: it never returns an image (empty or not) for the loop to
\* resize to and present.
C9_FailsFastOnThinInput ==
    (img # << >> /\ (img[1].width <= 1 \/ img[1].height <= 1)) => ~TransformDone

\* C10: while to_taskmgr_style runs on an input wider and higher than 1,
\* every pixel it reads is at x < width, y < height with its bytes inside
\* the buffer; is_edge is invoked only at x < width-1, y < height-1, and not
\* at coordinates that are border by position; no read panics.
C10_ReadsInBounds ==
    InputAbove1 =>
        /\ pc # "panicked"
        /\ \A r \in reads :
            /\ 0 <= r[1] /\ r[1] < img[1].width
            /\ 0 <= r[2] /\ r[2] < img[1].height
            /\ 0 <= GetOffset(img[1], r[1], r[2])
            /\ GetOffset(img[1], r[1], r[2]) + 3 < Len(img[1].buf)
        /\ \A e \in edgeCalls :
            /\ e[1] + 1 < img[1].width
            /\ e[2] + 1 < img[1].height
            /\ ~(e[1] = 0 \/ e[2] = 0 \/ e[1] = img[1].width - 2 \/ e[2] = img[1].height - 2)
            /\ {<<e[1], e[2]>>, <<e[1], e[2] + 1>>, <<e[1] + 1, e[2]>>,
                <<e[1] + 1, e[2] + 1>>} \subseteq reads

\* a finished transform that invoked is_edge and read the pixel at
\* (width-2, height-2), the farthest one it may read
C10_Witness ==
    /\ TransformDone
    /\ InputAbove1
    /\ edgeCalls # {}
    /\ <<img[1].width - 2, img[1].height - 2>> \in reads
    /\ \E c \in edgeCalls : ~IsEdge(img[1], c[1], c[2])

====
